---------------------------- MODULE Spec2Model ----------------------------
(***************************************************************************)
(* Model of src/eod_10.17.25/find.py: the bounded subset-sum search.       *)
(*                                                                         *)
(* Conventions.                                                            *)
(*  - Amounts read from the CSV are kept in half-cents (x * 200), so that  *)
(*    the product x*100 that to_cents rounds is h/2 and a tie is an odd h. *)
(*  - Python lists are 0-based; the sequences here are 1-based.  A sorted  *)
(*    position p of the model is index p-1 of the source; `start`, `i` and *)
(*    the entries of `path` are shifted by one accordingly.  Row indices   *)
(*    (origin ids) keep the source's 0-based values.                       *)
(*  - `runs` is a history variable: one entry per find_combinations call   *)
(*    of main's loop, recording how the call ended.  No action reads it.   *)
(***************************************************************************)
EXTENDS Integers, Sequences, FiniteSets, TLC

(* ------------------------------ bounds --------------------------------- *)
MaxLen == 2          \* rows in the CSV column (after dropna)
MaxSize == 2         \* --max-size ranges over -1 .. MaxSize
MaxMatches == 1      \* --max-matches ranges over 0 .. MaxMatches
MaxHalf == 5         \* SpecCents: amounts range over -MaxHalf .. MaxHalf half-cents

start_time == 0

VARIABLES
    args,            \* argparse.Namespace: target, tol (half-cents), max_size,
                     \* max_matches, verbose, timeout, both_signs, has_col
    floats,          \* the column as floats, in half-cents
    now,             \* time.time()
    pc,              \* position in main
    sorted_values, sorted_indices,
    tidx,            \* position of the for loop over targets_to_try
    results,         \* find_combinations: results
    stack,           \* active backtrack frames, innermost last
    path,            \* the shared path list
    final_matches,
    shown,           \* the slice of final_matches the reporter iterates over
    output,          \* what has been printed
    runs             \* history of the find_combinations calls

vars == <<args, floats, now, pc, sorted_values, sorted_indices, tidx, results,
          stack, path, final_matches, shown, output, runs>>

(* ------------------------------ helpers -------------------------------- *)
Abs(x) == IF x < 0 THEN -x ELSE x

RECURSIVE SumSeq(_)
SumSeq(s) == IF s = <<>> THEN 0 ELSE Head(s) + SumSeq(Tail(s))

Range(s) == {s[k] : k \in 1..Len(s)}

Take(s, k) == SubSeq(s, 1, IF k < Len(s) THEN k ELSE Len(s))

to_cents_HalfUp(h) == (h + 1) \div 2
\* int(round(x * 100)) with x*100 = h/2: Python 3 round() is half-to-even.
to_cents(h) ==
    LET k == h \div 2 IN
    IF h % 2 = 0 THEN k
    ELSE IF k % 2 = 0 THEN k ELSE k + 1

cents == [k \in 1..Len(floats) |-> to_cents(floats[k])]
orig_indices == [k \in 1..Len(floats) |-> k - 1]
target_cents == to_cents(args.target)
tol_cents == to_cents(args.tol)
low_target == target_cents - tol_cents
high_target == target_cents + tol_cents

\* list(zip(cents, orig_indices))
Zip == [k \in 1..Len(floats) |-> <<cents[k], orig_indices[k]>>]

Filtered_Always == SelectSeq(Zip, LAMBDA c : c[1] <= high_target)
Filtered_Strict ==
    IF \A k \in 1..Len(Zip) : Zip[k][1] >= 0
    THEN SelectSeq(Zip, LAMBDA c : c[1] < high_target)
    ELSE Zip
\* the optional filter on high_target
Filtered ==
    IF \A k \in 1..Len(Zip) : Zip[k][1] >= 0
    THEN SelectSeq(Zip, LAMBDA c : c[1] <= high_target)
    ELSE Zip

RECURSIVE InsertByValue_Unstable(_, _)
InsertByValue_Unstable(s, c) ==
    IF s = <<>> THEN <<c>>
    ELSE IF Head(s)[1] < c[1] THEN <<Head(s)>> \o InsertByValue_Unstable(Tail(s), c)
    ELSE <<c>> \o s

\* list.sort(key=lambda x: x[0]): stable, ascending by value
RECURSIVE InsertByValue(_, _)
InsertByValue(s, c) ==
    IF s = <<>> THEN <<c>>
    ELSE IF Head(s)[1] <= c[1] THEN <<Head(s)>> \o InsertByValue(Tail(s), c)
    ELSE <<c>> \o s

RECURSIVE SortByValue(_)
SortByValue(s) ==
    IF s = <<>> THEN <<>>
    ELSE InsertByValue(SortByValue(SubSeq(s, 1, Len(s) - 1)), s[Len(s)])

HasEndTime == args.timeout > 0
end_time_PerTarget == start_time + args.timeout * tidx
\* `start_time + timeout`, computed once before the loop over the targets
end_time == start_time + args.timeout

targets_to_try_Reversed ==
    IF args.both_signs THEN <<0 - to_cents(args.target), to_cents(args.target)>>
    ELSE <<to_cents(args.target)>>
targets_to_try ==
    IF args.both_signs THEN <<target_cents, -target_cents>> ELSE <<target_cents>>

(* ------------------------ find_combinations ---------------------------- *)
n == Len(sorted_values)
target == targets_to_try[tidx]

suffix_sums_Exclusive(i) == SumSeq(SubSeq(sorted_values, i + 1, n))
\* suffix_sums[i] = sum of values[i:]
RECURSIVE suffix_sums(_)
suffix_sums(i) == IF i > n THEN 0 ELSE suffix_sums(i + 1) + sorted_values[i]

TimedOut_AtRootOnly == HasEndTime /\ now > end_time /\ Len(stack) = 1
\* `end_time is not None and time.time() > end_time`
TimedOut == HasEndTime /\ now > end_time
ReachedMaxSize_Never == FALSE
\* `len(path) >= max_size`
ReachedMaxSize == Len(path) >= args.max_size
CapReached_Never == FALSE
CapReached_OffByOne == args.max_matches # 0 /\ Len(results) > args.max_matches
CapReached == args.max_matches # 0 /\ Len(results) >= args.max_matches
NextStart_Same(i) == i
NextStart(i) == i + 1
MatchOf_Reversed(p) ==
    [k \in 1..Len(p) |-> <<sorted_indices[p[Len(p) + 1 - k]],
                           sorted_values[p[Len(p) + 1 - k]]>>]
MatchOf(p) == [k \in 1..Len(p) |-> <<sorted_indices[p[k]], sorted_values[p[k]]>>]
WithinTol_Always(s, t) == TRUE
WithinTol(s, t) == Abs(s - t) <= tol_cents

Top == stack[Len(stack)]
SkipDuplicate_Adjacent(f) == f.i > 1 /\ sorted_values[f.i] = sorted_values[f.i - 1]
SkipDuplicate_Never(f) == FALSE
\* `prev is not None and values[i] == prev`, for the frame f at index f.i
SkipDuplicate(f) == f.has_prev /\ sorted_values[f.i] = f.prev
CannotReach_OrEqual(f) == f.curr_sum + suffix_sums(f.i) <= target
\* `curr_sum + suffix_sums[i] < target`
CannotReach(f) == f.curr_sum + suffix_sums(f.i) < target
SumEqualsTarget_NonEmpty(f) == f.curr_sum = target /\ path # <<>>
\* `curr_sum == target`
SumEqualsTarget(f) == f.curr_sum = target
Overshoot_NonNegativeOnly(f) ==
    f.curr_sum > target /\ \A p \in 1..n : sorted_values[p] >= 0
\* `curr_sum > target`
Overshoot(f) == f.curr_sum > target
Pop == SubSeq(stack, 1, Len(stack) - 1)
SetTop(f) == [stack EXCEPT ![Len(stack)] = f]
Frame(start, curr_sum) ==
    [start |-> start, curr_sum |-> curr_sum, i |-> start,
     has_prev |-> FALSE, prev |-> 0, at |-> "enter"]

Msg(kind, val) == [kind |-> kind, val |-> val]

\* the for loop over matches that follows the try statement
Accepted(t, matches) ==
    LET tagged == [k \in 1..Len(matches) |-> <<t, matches[k]>>] IN
    SelectSeq(tagged,
        LAMBDA tm : WithinTol(SumSeq([j \in 1..Len(tm[2]) |-> tm[2][j][2]]), tm[1]))

AfterRun == IF tidx < Len(targets_to_try) THEN "loop" ELSE "report"

(* --------------- find_combinations as a function of its arguments ------ *)
\* The same code read as a recursive function, for a call in which the
\* timeout does not fire.  c holds the arguments: values, indices, target,
\* max_size, max_matches; res is the results list so far.
RECURSIVE backtrack(_, _, _, _, _), branch(_, _, _, _, _, _, _)

SuffixOf(values, i) == SumSeq(SubSeq(values, i, Len(values)))

backtrack(c, start, curr_sum, p, res) ==
    IF curr_sum = c.target
    THEN Append(res, [k \in 1..Len(p) |-> <<c.indices[p[k]], c.values[p[k]]>>])
    ELSE IF curr_sum > c.target THEN res
    ELSE IF Len(p) >= c.max_size THEN res
    ELSE branch(c, start, curr_sum, p, res, FALSE, 0)

branch(c, i, curr_sum, p, res, has_prev, prev) ==
    IF i > Len(c.values) THEN res
    ELSE IF has_prev /\ c.values[i] = prev
    THEN branch(c, i + 1, curr_sum, p, res, has_prev, prev)
    ELSE IF curr_sum + SuffixOf(c.values, i) < c.target THEN res
    ELSE LET after == backtrack(c, i + 1, curr_sum + c.values[i], Append(p, i), res) IN
         IF c.max_matches # 0 /\ Len(after) >= c.max_matches THEN after
         ELSE branch(c, i + 1, curr_sum, p, after, TRUE, c.values[i])

find_combinations(values, indices, tgt, max_size, max_matches) ==
    backtrack([values |-> values, indices |-> indices, target |-> tgt,
               max_size |-> max_size, max_matches |-> max_matches],
              1, 0, <<>>, <<>>)

(* ------------------------------ Init ----------------------------------- *)
\* whole-cent amounts -0.01 .. 0.02 and targets -0.01 .. 0.02, in half-cents
Amounts == {0 - 2, 0, 2, 4}
Targets == {0 - 2, 0, 2, 4}
Inputs == UNION {[1..len -> Amounts] : len \in 0..MaxLen}

\* --verbose only changes what a timed-out search prints, so it is varied only
\* for runs that have a deadline.
Configs ==
    {c \in [target : Targets,
            tol : {0 - 2, 0, 2},
            max_size : (0 - 1)..MaxSize,
            max_matches : 0..MaxMatches,
            verbose : BOOLEAN,
            timeout : {0 - 1, 0, 1},
            both_signs : BOOLEAN,
            has_col : {TRUE}] : c.verbose => c.timeout > 0}

NoColumn ==
    [target |-> 2, tol |-> 0, max_size |-> 1, max_matches |-> 0,
     verbose |-> FALSE, timeout |-> 0, both_signs |-> FALSE, has_col |-> FALSE]

Init ==
    /\ args \in Configs \cup {NoColumn}
    /\ floats \in Inputs
    /\ now = start_time
    /\ pc = "start"
    /\ sorted_values = <<>>
    /\ sorted_indices = <<>>
    /\ tidx = 1
    /\ results = <<>>
    /\ stack = <<>>
    /\ path = <<>>
    /\ final_matches = <<>>
    /\ shown = <<>>
    /\ output = <<>>
    /\ runs = <<>>

(* ------------------------------ main ----------------------------------- *)
\* main up to the for loop: read, normalise, filter, sort
Prepare ==
    /\ pc = "start"
    /\ IF ~args.has_col
       THEN /\ pc' = "exit"
            /\ output' = Append(output, Msg("column_not_found", 0))
            /\ UNCHANGED <<sorted_values, sorted_indices>>
       ELSE IF Filtered = <<>>
       THEN /\ pc' = "done"
            /\ output' = Append(output, Msg("no_candidates", 0))
            /\ UNCHANGED <<sorted_values, sorted_indices>>
       ELSE LET combined == SortByValue(Filtered) IN
            /\ sorted_values' = [k \in 1..Len(combined) |-> combined[k][1]]
            /\ sorted_indices' = [k \in 1..Len(combined) |-> combined[k][2]]
            /\ pc' = "loop"
            /\ UNCHANGED output
    /\ UNCHANGED <<args, floats, now, tidx, results, stack, path,
                   final_matches, shown, runs>>

\* the call of find_combinations for targets_to_try[tidx], up to backtrack(0, 0, [])
CallFind ==
    /\ pc = "loop"
    /\ results' = <<>>
    /\ path' = <<>>
    /\ stack' = <<Frame(1, 0)>>
    /\ pc' = "search"
    /\ UNCHANGED <<args, floats, now, sorted_values, sorted_indices, tidx,
                   final_matches, shown, output, runs>>

\* entry of a backtrack frame: timeout, acceptance, overshoot, depth
BacktrackEnter ==
    /\ pc = "search" /\ stack # <<>> /\ Top.at = "enter"
    /\ IF TimedOut
       THEN \* raise TimeoutError; main's except clause; the loop over [] matches
            /\ stack' = <<>>
            /\ path' = <<>>
            /\ results' = <<>>
            /\ output' = output
                  \o (IF args.verbose THEN <<Msg("timeout_reached", 0),
                                             Msg("search_timed_out", target)>>
                      ELSE <<>>)
            /\ runs' = Append(runs, [t |-> target, outcome |-> "timeout",
                                     recorded |-> results, matches |-> <<>>])
            /\ final_matches' = final_matches \o Accepted(target, <<>>)
            /\ pc' = AfterRun
            /\ tidx' = IF tidx < Len(targets_to_try) THEN tidx + 1 ELSE tidx
       ELSE /\ IF SumEqualsTarget(Top)
               THEN /\ results' = Append(results, MatchOf(path))
                    /\ stack' = Pop
               ELSE IF Overshoot(Top) \/ ReachedMaxSize
               THEN /\ stack' = Pop
                    /\ UNCHANGED results
               ELSE /\ stack' = SetTop([Top EXCEPT !.at = "loop"])
                    /\ UNCHANGED results
            /\ UNCHANGED <<path, output, runs, final_matches, pc, tidx>>
    /\ UNCHANGED <<args, floats, now, sorted_values, sorted_indices, shown>>

\* one iteration of the for loop of a frame, up to the recursive call
BacktrackLoop ==
    /\ pc = "search" /\ stack # <<>> /\ Top.at = "loop"
    /\ LET f == Top IN
       IF f.i > n
       THEN /\ stack' = Pop
            /\ UNCHANGED path
       ELSE IF SkipDuplicate(f)
       THEN /\ stack' = SetTop([f EXCEPT !.i = f.i + 1])
            /\ UNCHANGED path
       ELSE IF CannotReach(f)
       THEN /\ stack' = Pop
            /\ UNCHANGED path
       ELSE /\ path' = Append(path, f.i)
            /\ stack' = Append(
                  SetTop([f EXCEPT !.has_prev = TRUE, !.prev = sorted_values[f.i],
                                   !.at = "resume"]),
                  Frame(NextStart(f.i), f.curr_sum + sorted_values[f.i]))
    /\ UNCHANGED <<args, floats, now, pc, sorted_values, sorted_indices, tidx,
                   results, final_matches, shown, output, runs>>

\* after the recursive call returned: path.pop() and the result cap
BacktrackResume ==
    /\ pc = "search" /\ stack # <<>> /\ Top.at = "resume"
    /\ path' = SubSeq(path, 1, Len(path) - 1)
    /\ IF CapReached
       THEN stack' = Pop
       ELSE stack' = SetTop([Top EXCEPT !.i = Top.i + 1, !.at = "loop"])
    /\ UNCHANGED <<args, floats, now, pc, sorted_values, sorted_indices, tidx,
                   results, final_matches, shown, output, runs>>

\* find_combinations returns results; main filters them into final_matches
FindReturn ==
    /\ pc = "search" /\ stack = <<>>
    /\ final_matches' = final_matches \o Accepted(target, results)
    /\ runs' = Append(runs, [t |-> target, outcome |-> "returned",
                             recorded |-> results, matches |-> results])
    /\ results' = <<>>
    /\ pc' = AfterRun
    /\ tidx' = IF tidx < Len(targets_to_try) THEN tidx + 1 ELSE tidx
    /\ UNCHANGED <<args, floats, now, sorted_values, sorted_indices, stack, path,
                   shown, output>>

(* ----------------------------- reporter -------------------------------- *)
\* The elements `for i, v in match` iterates over: match is the tuple (t, m).
MatchElems(match) ==
    <<[ty |-> "int", len |-> 0], [ty |-> "list", len |-> Len(match[2])]>>

\* Unpacking `i, v = e` needs an iterable of exactly two items.
CanUnpackPair(e) == e.ty = "list" /\ e.len = 2

\* the comprehension building `pretty` raises TypeError
PrettyRaises(match) == \E k \in 1..2 : ~CanUnpackPair(MatchElems(match)[k])

\* v / 100.0, kept as the exact quotient
Currency(v) == [num |-> v, den |-> 100]

\* pretty and total as the two statements of the loop body compute them from
\* an iterable of (i, v) pairs
PrettyOf(pairs) ==
    [pretty |-> [k \in 1..Len(pairs) |-> <<pairs[k][1], Currency(pairs[k][2])>>],
     total |-> Currency(SumSeq([k \in 1..Len(pairs) |-> pairs[k][2]]))]

Slice == IF args.max_matches # 0 THEN Take(final_matches, args.max_matches)
         ELSE final_matches

Report ==
    /\ pc = "report"
    /\ IF final_matches # <<>>
       THEN /\ shown' = Slice
            /\ IF \E k \in 1..Len(Slice) : PrettyRaises(Slice[k])
               THEN /\ pc' = "crashed"
                    /\ output' = Append(output, Msg("found", Len(final_matches)))
               ELSE /\ pc' = "done"
                    /\ output' = Append(output, Msg("found", Len(final_matches)))
                                 \o [k \in 1..Len(Slice) |-> Msg("match", PrettyOf(Slice[k]))]
       ELSE /\ pc' = "done"
            /\ output' = Append(output, Msg("none_found", 0))
            /\ UNCHANGED shown
    /\ UNCHANGED <<args, floats, now, sorted_values, sorted_indices, tidx, results,
                   stack, path, final_matches, runs>>

\* The wall clock advances.  It is read only by the timeout check, and only
\* when a deadline is set; a tick is the time between two reads, taken longer
\* than the budget, and the clock is not followed once the deadline has passed.
Tick ==
    /\ pc \in {"start", "loop", "search"}
    /\ HasEndTime
    /\ now <= end_time
    /\ now' = now + 2
    /\ UNCHANGED <<args, floats, pc, sorted_values, sorted_indices, tidx, results,
                   stack, path, final_matches, shown, output, runs>>

Next ==
    \/ Prepare
    \/ CallFind
    \/ BacktrackEnter
    \/ BacktrackLoop
    \/ BacktrackResume
    \/ FindReturn
    \/ Report
    \/ Tick

Spec == Init /\ [][Next]_vars

\* The program is sequential: once find_combinations has been called, the
\* next statement of the search runs.  Nothing is assumed of the clock.
Search ==
    \/ BacktrackEnter
    \/ BacktrackLoop
    \/ BacktrackResume
    \/ FindReturn

\* Every target, size limit and cap of Configs, without or with a deadline,
\* for one target or both signs, tolerance 0.
LiveConfigs ==
    [target : Targets,
     tol : {0},
     max_size : (0 - 1)..MaxSize,
     max_matches : 0..MaxMatches,
     verbose : {FALSE},
     timeout : {0, 1},
     both_signs : BOOLEAN,
     has_col : {TRUE}]

InitLive ==
    /\ args \in LiveConfigs
    /\ floats \in Inputs
    /\ now = start_time
    /\ pc = "start"
    /\ sorted_values = <<>>
    /\ sorted_indices = <<>>
    /\ tidx = 1
    /\ results = <<>>
    /\ stack = <<>>
    /\ path = <<>>
    /\ final_matches = <<>>
    /\ shown = <<>>
    /\ output = <<>>
    /\ runs = <<>>

SpecLive == InitLive /\ [][Next]_vars /\ WF_vars(Search)

(* --------------------- the worked examples as inputs ------------------- *)
\* Amounts, target and tolerance in half-cents (5.00 is 1000).
Example12 == [floats |-> <<1000, 1000, 2000>>, target |-> 2000,
              tols |-> {0}, sizes |-> {2, 5}]
Example13 == [floats |-> <<0 - 600, 1600, 1000>>, target |-> 1000,
              tols |-> {0, 2}, sizes |-> {2, 5}]
\* the defaults of --target, --tol and --max-size
Example14 == [floats |-> <<20000, 30000, 19070, 400000, 49070>>, target |-> 449070,
              tols |-> {2}, sizes |-> {5}]

\* --max-matches is 0 or the default 50 (more than any example finds);
\* --timeout is 0 or a positive budget
ExampleConfigs(e) ==
    {c \in [target : {e.target},
            tol : e.tols,
            max_size : e.sizes,
            max_matches : {0, 50},
            verbose : BOOLEAN,
            timeout : {0, 1},
            both_signs : BOOLEAN,
            has_col : {TRUE}] : c.verbose => c.timeout > 0}

InitExamples ==
    /\ \E e \in {Example12, Example13, Example14} :
           /\ floats = e.floats
           /\ args \in ExampleConfigs(e)
    /\ now = start_time
    /\ pc = "start"
    /\ sorted_values = <<>>
    /\ sorted_indices = <<>>
    /\ tidx = 1
    /\ results = <<>>
    /\ stack = <<>>
    /\ path = <<>>
    /\ final_matches = <<>>
    /\ shown = <<>>
    /\ output = <<>>
    /\ runs = <<>>

SpecExamples == InitExamples /\ [][Next]_vars

(* ------------------ amounts that fall between two cents ---------------- *)
\* Columns and targets in half-cents, odd values included: 0.005 is 1, 0.025
\* is 5.  For these the product x * 100 is exactly h/2 in floating point.
InitCents ==
    /\ floats \in UNION {[1..len -> (0 - MaxHalf)..MaxHalf] : len \in 1..2}
    /\ args \in [target : {3, 5}, tol : {0, 1}, max_size : {2}, max_matches : {0},
                  verbose : {FALSE}, timeout : {0, 1}, both_signs : {FALSE},
                  has_col : {TRUE}]
    /\ now = start_time
    /\ pc = "start"
    /\ sorted_values = <<>>
    /\ sorted_indices = <<>>
    /\ tidx = 1
    /\ results = <<>>
    /\ stack = <<>>
    /\ path = <<>>
    /\ final_matches = <<>>
    /\ shown = <<>>
    /\ output = <<>>
    /\ runs = <<>>

SpecCents == InitCents /\ [][Next]_vars

(* ------------------------------ claims --------------------------------- *)
\* the configurations the specification admits
ValidConfig == args.max_size >= 1 /\ args.tol >= 0 /\ args.timeout >= 0
Finished == pc \in {"done", "crashed"}
Collected == pc \in {"report", "done", "crashed"}
MatchLines == SelectSeq(output, LAMBDA o : o.kind = "match")
ValuesOf(m) == [j \in 1..Len(m) |-> m[j][2]]
OriginsOf(m) == [j \in 1..Len(m) |-> m[j][1]]
Count(s, v) == Cardinality({k \in 1..Len(s) : s[k] = v})
SameBag(s1, s2) == \A v \in Range(s1) \cup Range(s2) : Count(s1, v) = Count(s2, v)
Distinct(s) == \A j, k \in 1..Len(s) : j # k => s[j] # s[k]
Increasing(s) == \A j, k \in 1..Len(s) : j < k => s[j] < s[k]
RECURSIVE SumOver(_)
SumOver(S) == IF S = {} THEN 0
              ELSE LET p == CHOOSE q \in S : TRUE IN cents[p] + SumOver(S \ {p})
RECURSIVE SeqOfSet(_)
SeqOfSet(S) == IF S = {} THEN <<>>
               ELSE LET p == CHOOSE q \in S : TRUE IN <<cents[p]>> \o SeqOfSet(S \ {p})
\* every list of matches a find_combinations call holds or has returned
AllMatchLists == {results} \cup {runs[k].matches : k \in 1..Len(runs)}
                           \cup {runs[k].recorded : k \in 1..Len(runs)}

\* C1: in every run whose accepted match list is non-empty, the reporter ends
\* without raising and prints, for each match it lists, the (origin_id,
\* value/100) pairs in selection order and the match total.
C1_ReporterEmitsMatches ==
    (Finished /\ ValidConfig /\ final_matches # <<>>) =>
        /\ pc = "done"
        /\ MatchLines = [k \in 1..Len(shown) |-> Msg("match", PrettyOf(shown[k][2]))]

\* C2: the matches a search had recorded when it timed out are in the run's
\* accepted match list.
C2_PartialResultsRetained ==
    \A k \in 1..Len(runs) :
        (ValidConfig /\ runs[k].outcome = "timeout") =>
            \A j \in 1..Len(runs[k].recorded) :
                <<runs[k].t, runs[k].recorded[j]>> \in Range(final_matches)

\* C3: with no timeout and no result cap, every subset of the input amounts of
\* size 1..max_size whose sum is within the tolerance of the target has a match
\* with the same multiset of values in the accepted match list.
C3_EverySubsetInWindowFound ==
    (Collected /\ ValidConfig /\ args.has_col /\ ~HasEndTime /\ args.max_matches = 0) =>
        \A S \in SUBSET (1..Len(cents)) :
            (/\ 1 <= Cardinality(S)
             /\ Cardinality(S) <= args.max_size
             /\ Abs(SumOver(S) - target_cents) <= tol_cents)
            => \E k \in 1..Len(final_matches) :
                   /\ final_matches[k][1] = target_cents
                   /\ SameBag(ValuesOf(final_matches[k][2]), SeqOfSet(S))

\* C4: every accepted match (t, m) has abs(sum of m's values - t) <= tolerance.
C4_AcceptedWithinTolerance ==
    \A k \in 1..Len(final_matches) :
        Abs(SumSeq(ValuesOf(final_matches[k][2])) - final_matches[k][1]) <= tol_cents

C4_Witness ==
    /\ Collected
    /\ \E k \in 1..Len(final_matches) : Len(final_matches[k][2]) >= 2

\* C5: with max_matches > 0, no find_combinations call holds or returns more
\* than max_matches matches, and the reporter lists at most max_matches.
C5_CapRespected ==
    args.max_matches > 0 =>
        /\ \A l \in AllMatchLists : Len(l) <= args.max_matches
        /\ Len(shown) <= args.max_matches
        /\ Len(MatchLines) <= args.max_matches

C5_Witness ==
    /\ pc = "search" /\ stack # <<>> /\ Top.at = "resume"
    /\ args.max_matches > 0
    /\ Len(results) = args.max_matches
    /\ Top.i < n

\* C6: the positions of the current path are strictly increasing and no match
\* of a find_combinations call contains the same origin_id twice.
C6_NoRepeatedOrigin ==
    /\ Increasing(path)
    /\ \A l \in AllMatchLists : \A k \in 1..Len(l) : Distinct(OriginsOf(l[k]))

C6_Witness ==
    /\ pc = "search"
    /\ \E k \in 1..Len(results) : Len(results[k]) >= 2

\* C7: every match of a find_combinations call has length <= max_size.
C7_MatchLengthBounded ==
    \A l \in AllMatchLists : \A k \in 1..Len(l) : Len(l[k]) <= args.max_size

\* C8: when a search was cut by the timeout, the finished run's output says so.
C8_TruncationReported ==
    (Finished /\ ValidConfig /\ \E k \in 1..Len(runs) : runs[k].outcome = "timeout") =>
        \E k \in 1..Len(output) :
            output[k].kind \in {"timeout_reached", "search_timed_out", "truncated"}

\* C9: a run with max_size <= 0, a negative tolerance or a negative time budget
\* never calls find_combinations.
C9_InvalidConfigRejected ==
    (args.max_size <= 0 \/ args.tol < 0 \/ args.timeout < 0) =>
        (pc \notin {"search", "report", "crashed"} /\ runs = <<>>)

\* C10: with --both-signs, a run that reaches the search runs it for target and
\* then for -target, and the accepted match list is the accepted matches of the
\* first run followed by those of the second, each tagged with its target.
TaggedAccepted(r) ==
    SelectSeq([k \in 1..Len(r.matches) |-> <<r.t, r.matches[k]>>],
              LAMBDA tm : Abs(SumSeq(ValuesOf(tm[2])) - tm[1]) <= tol_cents)

C10_BothSignsConcatenated ==
    args.both_signs =>
        /\ Len(runs) <= 2
        /\ Len(runs) >= 1 => runs[1].t = target_cents
        /\ Len(runs) = 2 => runs[2].t = 0 - target_cents
        /\ Len(runs) = 1 => final_matches = TaggedAccepted(runs[1])
        /\ Len(runs) = 2 =>
               final_matches = TaggedAccepted(runs[1]) \o TaggedAccepted(runs[2])
        /\ (Collected /\ sorted_values # <<>>) => Len(runs) = 2

C10_Witness ==
    /\ args.both_signs /\ pc = "report" /\ Len(runs) = 2
    /\ target_cents # 0
    /\ final_matches # <<>>

\* C11: the accepted match list of a run in which no timeout fires is a
\* function of the input column and the configuration alone (same matches,
\* same order, same order of pairs inside each match): it does not depend on
\* the clock or on whether a deadline is set, so two such runs on the same
\* input and configuration print the same sequence.
TagWithin(t, ms) ==
    SelectSeq([k \in 1..Len(ms) |-> <<t, ms[k]>>],
              LAMBDA tm : Abs(SumSeq(ValuesOf(tm[2])) - tm[1]) <= tol_cents)

ExpectedFor(t) ==
    LET combined == SortByValue(Filtered) IN
    TagWithin(t, find_combinations([k \in 1..Len(combined) |-> combined[k][1]],
                                   [k \in 1..Len(combined) |-> combined[k][2]],
                                   t, args.max_size, args.max_matches))

ExpectedFinal ==
    IF Filtered = <<>> THEN <<>>
    ELSE IF args.both_signs
    THEN ExpectedFor(target_cents) \o ExpectedFor(0 - target_cents)
    ELSE ExpectedFor(target_cents)

NoTimeoutFired == \A k \in 1..Len(runs) : runs[k].outcome = "returned"

C11_OutputIsFunctionOfInput ==
    (Collected /\ args.has_col /\ NoTimeoutFired) => final_matches = ExpectedFinal

C11_Witness ==
    /\ Collected /\ HasEndTime /\ NoTimeoutFired
    /\ Len(final_matches) >= 2
    /\ \E k \in 1..Len(final_matches) : Len(final_matches[k][2]) >= 2

\* C12: for amounts [5.00, 5.00, 10.00], target 10.00, tolerance 0 and
\* max_size >= 2, a search for the target that returns (no cap or timeout
\* reached) yields exactly two matches: the 10.00 amount alone and both 5.00
\* amounts (rows 0 and 1).
IsExample(e) == floats = e.floats /\ args.target = e.target
SearchedTarget == Len(runs) >= 1 /\ runs[1].outcome = "returned"

C12_DuplicateValuesExample ==
    (IsExample(Example12) /\ args.max_size >= 2 /\ SearchedTarget) =>
        /\ Len(runs[1].matches) = 2
        /\ Range(runs[1].matches) = {<< <<2, 1000>> >>, << <<0, 500>>, <<1, 500>> >>}

C12_Witness ==
    /\ IsExample(Example12) /\ args.max_size >= 2 /\ SearchedTarget
    /\ pc = "report"
    /\ Len(final_matches) = 2

\* C13: for amounts [-3.00, 8.00, 5.00], target 5.00 and max_size >= 2, a
\* search for the target that returns has both {5.00} and {-3.00, 8.00} among
\* its matches.
C13_NegativeAmountExample ==
    (IsExample(Example13) /\ args.max_size >= 2 /\ SearchedTarget) =>
        /\ << <<2, 500>> >> \in Range(runs[1].matches)
        /\ << <<0, 0 - 300>>, <<1, 800>> >> \in Range(runs[1].matches)

C13_Witness ==
    /\ IsExample(Example13) /\ args.max_size >= 2 /\ SearchedTarget
    /\ pc = "report"
    /\ \E k \in 1..Len(final_matches) : Len(final_matches[k][2]) = 2

\* C14: for amounts [100.00, 150.00, 95.35, 2000.00, 245.35] with the default
\* target 2245.35, tolerance 0.01 and max_size 5, a run in which no timeout
\* fires accepts exactly {2000.00, 245.35} and {2000.00, 150.00, 95.35}.
C14_EndToEndExample ==
    (IsExample(Example14) /\ Collected /\ NoTimeoutFired) =>
        /\ Len(final_matches) = 2
        /\ Range(final_matches) =
               {<<224535, << <<4, 24535>>, <<3, 200000>> >> >>,
                <<224535, << <<2, 9535>>, <<1, 15000>>, <<3, 200000>> >> >>}

C14_Witness ==
    /\ IsExample(Example14) /\ pc = "report" /\ NoTimeoutFired
    /\ args.max_matches = 50 /\ HasEndTime
    /\ final_matches # <<>>

\* C15: to_cents rounds half away from zero: an amount whose product x*100 is
\* halfway between two integers becomes the one of larger magnitude, any other
\* amount the nearest integer.  Stated of the values the search works on and
\* of the target it is called with.
RoundHalfAway(h) ==
    IF h % 2 = 0 THEN h \div 2
    ELSE IF h > 0 THEN (h + 1) \div 2
    ELSE 0 - ((1 - h) \div 2)

\* nearest integer to h/2, the even neighbour on a tie
NearestEven(h) ==
    IF h % 2 = 0 THEN h \div 2
    ELSE CHOOSE c \in {(h - 1) \div 2, (h + 1) \div 2} : c % 2 = 0

C15_RoundsHalfAwayFromZero ==
    /\ \A p \in 1..Len(sorted_values) :
           sorted_values[p] = RoundHalfAway(floats[sorted_indices[p] + 1])
    /\ \A k \in 1..Len(runs) : runs[k].t = RoundHalfAway(args.target)

\* C15 as amended: on a tie to_cents returns the even neighbour.
C15_RoundsHalfToEven ==
    /\ \A p \in 1..Len(sorted_values) :
           sorted_values[p] = NearestEven(floats[sorted_indices[p] + 1])
    /\ \A k \in 1..Len(runs) : runs[k].t = NearestEven(args.target)

C15_Witness ==
    /\ pc = "report"
    /\ \E p, q \in 1..Len(sorted_values) :
           /\ floats[sorted_indices[p] + 1] = 5 /\ sorted_values[p] = 2
           /\ floats[sorted_indices[q] + 1] = 0 - 1 /\ sorted_values[q] = 0

\* C16: whenever the branch loop breaks at index i because curr_sum +
\* suffix_sums[i] < target, no set of sorted positions >= i that fits the size
\* limit brings the path's sum to the target.
RECURSIVE SumAt(_)
SumAt(S) == IF S = {} THEN 0
            ELSE LET p == CHOOSE q \in S : TRUE IN sorted_values[p] + SumAt(S \ {p})

BreaksAtTop ==
    /\ pc = "search" /\ stack # <<>> /\ Top.at = "loop" /\ Top.i <= n
    /\ ~SkipDuplicate(Top)
    /\ CannotReach(Top)

C16_SuffixPruningSound ==
    (ValidConfig /\ BreaksAtTop) =>
        \A S \in SUBSET (Top.i..n) :
            Len(path) + Cardinality(S) <= args.max_size
            => Top.curr_sum + SumAt(S) # target

\* C17: in a run whose working set holds a negative amount, a frame entered
\* with curr_sum > target (before the deadline, below the size limit) is not
\* cut off: its entry step leaves it active, at its branch loop.
HasNegative == \E p \in 1..n : sorted_values[p] < 0

EntersAbove ==
    /\ pc = "search" /\ stack # <<>> /\ Top.at = "enter"
    /\ ~TimedOut /\ ~ReachedMaxSize
    /\ Top.curr_sum > target

C17_OvershootPruningDisabled ==
    [][(ValidConfig /\ HasNegative /\ EntersAbove /\ stack' # stack)
          => (Len(stack') = Len(stack) /\ stack'[Len(stack')].at = "loop")]_vars

\* C18: with --both-signs the filter is redone for -target: every amount of a
\* combination (of at most max_size amounts) that sums to -target is a
\* candidate of a search that is run for -target, also when the filter for the
\* original target leaves no candidate.
C18_NegatedTargetRefiltered ==
    (Collected /\ ValidConfig /\ args.has_col /\ args.both_signs) =>
        \A S \in SUBSET (1..Len(cents)) :
            (/\ 1 <= Cardinality(S)
             /\ Cardinality(S) <= args.max_size
             /\ SumOver(S) = 0 - target_cents)
            => /\ \E k \in 1..Len(runs) : runs[k].t = 0 - target_cents
               /\ \A p \in S : (p - 1) \in Range(sorted_indices)

\* C19: in the list of matches of one find_combinations call, no two matches
\* have the same multiset of values.
C19_NoDuplicateValueMatches ==
    \A l \in AllMatchLists :
        \A j, k \in 1..Len(l) :
            j # k => ~SameBag(ValuesOf(l[j]), ValuesOf(l[k]))

\* a sibling with a repeated value is being skipped after a match was recorded
C19_Witness ==
    /\ pc = "search" /\ stack # <<>> /\ Top.at = "loop" /\ Top.i <= n
    /\ SkipDuplicate(Top)
    /\ ValidConfig /\ results # <<>>

\* C20: with max_matches > 0, once the recorded matches have reached
\* max_matches, every further step of the search only returns from the
\* innermost frame: no frame is entered, no loop iterates, no match is added.
CapHit == pc = "search" /\ args.max_matches > 0 /\ Len(results) >= args.max_matches

C20_CapShortCircuits ==
    [][(CapHit /\ pc' = "search" /\ stack' # stack)
          => (stack' = Pop /\ results' = results)]_vars

C20_Witness ==
    /\ CapHit /\ ValidConfig /\ Len(stack) >= 2
    /\ \A k \in 1..Len(stack) : stack[k].at = "resume"

\* C21: with a time budget, a backtrack frame entered after the clock has
\* passed the deadline, at any depth, aborts the whole call: its entry step
\* empties the frame stack, ends the call as timed out without recording a
\* match, and adds nothing to the accepted matches.
EnteredAfterDeadline ==
    /\ pc = "search" /\ stack # <<>> /\ Top.at = "enter"
    /\ args.timeout > 0 /\ now > start_time + args.timeout

C21_TimeoutPolledAtEveryEntry ==
    [][EnteredAfterDeadline =>
          /\ stack' = <<>>
          /\ pc' # "search"
          /\ Len(runs') = Len(runs) + 1
          /\ runs'[Len(runs')].outcome = "timeout"
          /\ runs'[Len(runs')].matches = <<>>
          /\ final_matches' = final_matches]_vars

\* a call was aborted by a frame below the root, after a match was recorded
C21_Witness ==
    /\ ValidConfig
    /\ \E k \in 1..Len(runs) : runs[k].outcome = "timeout" /\ runs[k].recorded # <<>>

\* C22: once main has filtered the column, (a) if all amounts are >= 0 the
\* rows kept are exactly those with amount <= target + tol, (b) if any amount
\* is negative every row is kept, and so (c) every row of a non-empty
\* combination whose sum lies in [target - tol, target + tol] is kept.
FilterDone == args.has_col /\ pc # "start"
Kept == {sorted_indices[p] + 1 : p \in 1..Len(sorted_indices)}
AllNonNegative == \A k \in 1..Len(cents) : cents[k] >= 0

C22_FilterKeepsEveryUsableAmount ==
    FilterDone =>
        /\ AllNonNegative =>
               Kept = {k \in 1..Len(cents) : cents[k] <= target_cents + tol_cents}
        /\ ~AllNonNegative => Kept = 1..Len(cents)
        /\ \A S \in SUBSET (1..Len(cents)) :
               (/\ S # {}
                /\ target_cents - tol_cents <= SumOver(S)
                /\ SumOver(S) <= target_cents + tol_cents)
               => S \subseteq Kept

\* an amount above the window was removed, one equal to target + tol was kept
C22_Witness ==
    /\ FilterDone /\ ValidConfig /\ pc = "loop"
    /\ AllNonNegative /\ tol_cents > 0
    /\ Len(sorted_values) < Len(cents)
    /\ \E p \in 1..Len(sorted_values) : sorted_values[p] = target_cents + tol_cents

\* C23: the working list is sorted ascending by value; candidates with equal
\* values stand in input order (ascending row index); the origin at each
\* sorted position is the row the value was read from, and no row occurs twice.
C23_SortedStableAndPaired ==
    /\ Len(sorted_indices) = Len(sorted_values)
    /\ \A p, q \in 1..Len(sorted_values) :
           p < q => /\ sorted_values[p] <= sorted_values[q]
                    /\ sorted_indices[p] # sorted_indices[q]
                    /\ sorted_values[p] = sorted_values[q]
                           => sorted_indices[p] < sorted_indices[q]
    /\ \A p \in 1..Len(sorted_values) :
           /\ sorted_indices[p] + 1 \in 1..Len(floats)
           /\ sorted_values[p] = to_cents(floats[sorted_indices[p] + 1])

\* the sort has run on a list that holds a tie
C23_Witness ==
    /\ pc = "loop" /\ ValidConfig
    /\ \E p, q \in 1..Len(sorted_values) :
           p < q /\ sorted_values[p] = sorted_values[q]

\* C24: every find_combinations call that starts also ends, whatever the
\* configuration (with or without deadline or cap); while it runs the path
\* holds at most max(max_size, 0) positions and there is at most one active
\* frame more than that.
DepthLimit == IF args.max_size > 0 THEN args.max_size ELSE 0
InSearch == pc = "search"
PathBounded == Len(path) <= DepthLimit /\ Len(stack) <= DepthLimit + 1

C24_SearchTerminatesBounded ==
    /\ []PathBounded
    /\ InSearch ~> ~InSearch

\* a call without deadline and cap returned after going max_size deep
C24_Witness ==
    /\ pc = "report" /\ ~HasEndTime /\ args.max_matches = 0 /\ args.max_size >= 2
    /\ \E k \in 1..Len(runs) :
           /\ runs[k].outcome = "returned"
           /\ \E j \in 1..Len(runs[k].matches) :
                  Len(runs[k].matches[j]) = args.max_size

\* C25: a find_combinations call for target 0 never tries an amount (the path
\* stays empty and the root is the only frame), and when it returns its result
\* is exactly one match, the empty combination, whatever the amounts, max_size
\* and max_matches are.
C25_ZeroTargetYieldsEmptyMatch ==
    /\ (pc = "search" /\ targets_to_try[tidx] = 0) =>
           (path = <<>> /\ Len(stack) <= 1 /\ Len(results) <= 1)
    /\ \A k \in 1..Len(runs) :
           (runs[k].t = 0 /\ runs[k].outcome = "returned")
               => runs[k].matches = << <<>> >>

\* a call for target 0 returned although amounts summing to 0 were at hand
C25_Witness ==
    /\ pc = "report" /\ ValidConfig /\ args.max_matches > 0
    /\ Len(runs) = 1 /\ runs[1].t = 0 /\ runs[1].outcome = "returned"
    /\ Len(sorted_values) >= 2
    /\ \E p \in 1..Len(sorted_values) : sorted_values[p] = 0

ValuesAt(S) == SeqOfSet({sorted_indices[p] + 1 : p \in S})
CapNotReached(r) == args.max_matches = 0 \/ Len(r.matches) < args.max_matches

C27_CompleteUpToEqualValues ==
    \A k \in 1..Len(runs) :
        (/\ runs[k].outcome = "returned"
         /\ runs[k].t > 0
         /\ CapNotReached(runs[k])
         /\ \A p \in 1..n : sorted_values[p] >= 0)
        => \A S \in SUBSET (1..n) :
               (Cardinality(S) <= args.max_size /\ SumAt(S) = runs[k].t)
               => Cardinality({j \in 1..Len(runs[k].matches) :
                      SameBag(ValuesOf(runs[k].matches[j]), ValuesAt(S))}) = 1

\* two different subsets realise the same matching multiset, found once
C27_Witness ==
    /\ pc = "report" /\ ValidConfig /\ args.max_matches = 0
    /\ Len(runs) >= 1 /\ runs[1].outcome = "returned" /\ runs[1].t > 0
    /\ \A p \in 1..n : sorted_values[p] >= 0
    /\ \E p, q \in 1..n :
           p < q /\ sorted_values[p] = runs[1].t /\ sorted_values[q] = runs[1].t
    /\ Len(runs[1].matches) = 1

\* C28: the accepted match list of a run in which no timeout fires is the same
\* for every non-negative tolerance: it equals the list the same input and
\* configuration yield under any other non-negative tolerance.  The list a run
\* yields under tolerance tc (in cents) is computed as main computes it.
FilteredWith(tc) ==
    IF \A k \in 1..Len(Zip) : Zip[k][1] >= 0
    THEN SelectSeq(Zip, LAMBDA c : c[1] <= target_cents + tc)
    ELSE Zip

AcceptedWith(tc, t) ==
    LET combined == SortByValue(FilteredWith(tc))
        ms == find_combinations([k \in 1..Len(combined) |-> combined[k][1]],
                                [k \in 1..Len(combined) |-> combined[k][2]],
                                t, args.max_size, args.max_matches)
    IN SelectSeq([k \in 1..Len(ms) |-> <<t, ms[k]>>],
                 LAMBDA tm : Abs(SumSeq(ValuesOf(tm[2])) - tm[1]) <= tc)

FinalWith(tc) ==
    IF FilteredWith(tc) = <<>> THEN <<>>
    ELSE IF args.both_signs
    THEN AcceptedWith(tc, target_cents) \o AcceptedWith(tc, 0 - target_cents)
    ELSE AcceptedWith(tc, target_cents)

\* tolerances 0.00 and 0.01, in cents
OtherTolerances == {0, 1}

C28_ToleranceIndependent ==
    (Collected /\ ValidConfig /\ args.has_col /\ NoTimeoutFired) =>
        \A tc \in OtherTolerances : final_matches = FinalWith(tc)

\* C29: a find_combinations call with max_matches = k > 0 that returned has as
\* result the first min(k, N) matches, in order, of the N matches the same
\* call yields with max_matches = 0; while it runs, the matches recorded so
\* far are a prefix of that list.
Uncapped(t) == find_combinations(sorted_values, sorted_indices, t, args.max_size, 0)
IsPrefix(s1, s2) == Len(s1) <= Len(s2) /\ s1 = SubSeq(s2, 1, Len(s1))

C29_CapOnlyTruncates ==
    args.max_matches > 0 =>
        /\ \A k \in 1..Len(runs) :
               runs[k].outcome = "returned"
                   => runs[k].matches = Take(Uncapped(runs[k].t), args.max_matches)
        /\ pc = "search" => IsPrefix(results, Uncapped(targets_to_try[tidx]))

\* the cap cut a list that would have been longer
C29_Witness ==
    /\ pc = "report" /\ ValidConfig /\ args.max_matches > 0
    /\ Len(runs) = 1 /\ runs[1].outcome = "returned"
    /\ Len(runs[1].matches) = args.max_matches
    /\ Len(Uncapped(runs[1].t)) > args.max_matches

\* C30: the deadline is start_time + timeout for every target run: with
\* --both-signs, once the search for target has timed out, the search for
\* -target is aborted by its root frame (no frame below the root, empty path,
\* nothing recorded) and the run accepts no match at all.
FirstTimedOut == args.both_signs /\ Len(runs) >= 1 /\ runs[1].outcome = "timeout"

C30_DeadlineSharedByBothRuns ==
    FirstTimedOut =>
        /\ pc = "search" =>
               (results = <<>> /\ path = <<>> /\ stack = <<Frame(1, 0)>>)
        /\ Len(runs) = 2 =>
               /\ runs[2].outcome = "timeout"
               /\ runs[2].recorded = <<>>
               /\ runs[2].matches = <<>>
        /\ final_matches = <<>>

\* both runs timed out although an amount equals the second target
C30_Witness ==
    /\ pc = "report" /\ ValidConfig /\ FirstTimedOut /\ Len(runs) = 2
    /\ runs[2].outcome = "timeout"
    /\ \E p \in 1..Len(sorted_values) : sorted_values[p] = runs[2].t

=============================================================================
